---- MODULE Spec2Model ----
(***************************************************************************)
(* Model of the explain backend (src/server.js): one POST handler with a   *)
(* process-wide memoization cache in front of an upstream completion call. *)
(*                                                                         *)
(* JavaScript values are records [t, s, n]: t is the kind of value, s the  *)
(* characters of a string, n the value of a finite number.  Strings are    *)
(* sequences of one-character strings, so that JSON.stringify is modelled  *)
(* character by character (quoting and escaping included).                 *)
(***************************************************************************)
EXTENDS Integers, Sequences, FiniteSets, TLC

VARIABLES
    apiKey,   \* process.env.OPENAI_API_KEY is set (line 6)
    proc,     \* "starting" | "serving" | "exited"
    cache,    \* the Map of line 24: a function from key to explanation
    pc,       \* per request slot: "idle" | "awaiting" (suspended at line 70)
    req,      \* per slot: the destructured locals of the suspended handler
    key,      \* per slot: the local const key of the suspended handler
    last,     \* history: what the most recent handler step did and answered
    written,  \* history: per derived key of a storing request, the text of the
              \* latest such request since cache.clear last ran
    r1, r2,   \* key derivation, checked alone: two request bodies
    k1, k2,   \* ... and the keys the handler derives for them
    kpc       \* ... "input" | "derived"

vars == <<apiKey, proc, cache, pc, req, key, last, written, r1, r2, k1, k2, kpc>>

(***************************************************************************)
(* Bounds of the model.                                                    *)
(***************************************************************************)
\* Number of requests that can be suspended at the upstream call at once.
MaxInFlight == 2
\* The overflow threshold of line 86.  The source's value is 1000; the model
\* scales it down so that overflow happens within the explored requests.
CacheLimit == 2

Slots == 1..MaxInFlight

(***************************************************************************)
(* JavaScript values as they come out of JSON.parse                        *)
(***************************************************************************)
Undef == [t |-> "undefined", s |-> <<>>, n |-> 0]   \* property absent
Null == [t |-> "null", s |-> <<>>, n |-> 0]
Str(chars) == [t |-> "string", s |-> chars, n |-> 0]
Num(m) == [t |-> "number", s |-> <<>>, n |-> m]
\* JSON.parse("1e999"): a JSON number beyond the double range parses to Infinity
Infinity == [t |-> "infinity", s |-> <<>>, n |-> 0]

\* typeof v
TypeOf(v) ==
    CASE v.t = "string" -> "string"
      [] v.t = "number" -> "number"
      [] v.t = "infinity" -> "number"
      [] v.t = "null" -> "object"
      [] OTHER -> "undefined"

\* ToBoolean(v), as used by !v and v || w
Truthy(v) ==
    CASE v.t = "string" -> v.s # <<>>
      [] v.t = "number" -> v.n # 0
      [] v.t = "infinity" -> TRUE
      [] OTHER -> FALSE

(***************************************************************************)
(* JSON.stringify                                                          *)
(***************************************************************************)
DigitChar == <<"0", "1", "2", "3", "4", "5", "6", "7", "8", "9">>

RECURSIVE Digits(_)
Digits(m) ==
    IF m < 10 THEN <<DigitChar[m + 1]>>
    ELSE Digits(m \div 10) \o <<DigitChar[(m % 10) + 1]>>

\* QuoteJSONString escapes the quote and the backslash
RECURSIVE Escape(_)
Escape(chars) ==
    IF chars = <<>> THEN <<>>
    ELSE (IF Head(chars) \in {"\"", "\\"}
          THEN <<"\\", Head(chars)>>
          ELSE <<Head(chars)>>) \o Escape(Tail(chars))

Quote(chars) == <<"\"">> \o Escape(chars) \o <<"\"">>

\* SerializeJSONProperty for a value that is present
SerializeValue(v) ==
    CASE v.t = "string" -> Quote(v.s)
      [] v.t = "number" -> Digits(v.n)
      [] OTHER -> <<"n", "u", "l", "l">>    \* null and non-finite numbers

\* The characters of the property names the handler uses
PropChars(name) ==
    CASE name = "sql" -> <<"s", "q", "l">>
      [] name = "challengeId" -> <<"c", "h", "a", "l", "l", "e", "n", "g", "e", "I", "d">>
      [] name = "title" -> <<"t", "i", "t", "l", "e">>
      [] name = "description" -> <<"d", "e", "s", "c", "r", "i", "p", "t", "i", "o", "n">>
      [] name = "gradeStatus" -> <<"g", "r", "a", "d", "e", "S", "t", "a", "t", "u", "s">>

\* Objects are sequences of <<name, value>> in property order
RECURSIVE SerializeProps(_, _)
SerializeProps(props, first) ==
    IF props = <<>> THEN <<>>
    ELSE LET p == Head(props) IN
         IF p[2].t = "undefined"
         THEN SerializeProps(Tail(props), first)     \* undefined: omitted
         ELSE (IF first THEN <<>> ELSE <<",">>)
              \o Quote(PropChars(p[1])) \o <<":">> \o SerializeValue(p[2])
              \o SerializeProps(Tail(props), FALSE)

Stringify(props) == <<"{">> \o SerializeProps(props, TRUE) \o <<"}">>

(***************************************************************************)
(* The handler's pure steps                                                *)
(***************************************************************************)
\* body.name, Undef when the property is absent
Get(body, name) ==
    IF \E i \in 1..Len(body) : body[i][1] = name
    THEN body[CHOOSE i \in 1..Len(body) : body[i][1] = name][2]
    ELSE Undef

\* line 33: const { sql, challengeId, title, description, gradeStatus } = req.body || {}
Destructure(body) ==
    [sql         |-> Get(body, "sql"),
     challengeId |-> Get(body, "challengeId"),
     title       |-> Get(body, "title"),
     description |-> Get(body, "description"),
     gradeStatus |-> Get(body, "gradeStatus")]

\* Validation by type alone: the empty string passes
ValidSqlTypeOnly(sql) == TypeOf(sql) = "string"

\* line 35, negated: the request passes validation
ValidSql(sql) == Truthy(sql) /\ TypeOf(sql) = "string"

\* The key taken from every destructured field, description included
KeyOfWithDescription(b) ==
    Stringify(<< <<"sql", b.sql>>, <<"challengeId", b.challengeId>>,
                 <<"title", b.title>>, <<"description", b.description>>,
                 <<"gradeStatus", b.gradeStatus>> >>)

\* line 40: JSON.stringify({ sql, challengeId, title, gradeStatus })
KeyOf(b) ==
    Stringify(<< <<"sql", b.sql>>, <<"challengeId", b.challengeId>>,
                 <<"title", b.title>>, <<"gradeStatus", b.gradeStatus>> >>)

\* line 41: cache.has(key)
Has(c, k) == k \in DOMAIN c

\* line 63: (description || "").slice(0, 500) throws a TypeError when description
\* is truthy and has no slice method (a number; strings have one)
PromptThrows(b) == Truthy(b.description) /\ TypeOf(b.description) # "string"

\* What the upstream call can resolve to at completion.choices?.[0]?.message?.content
NoContent == "<undefined>"
Contents == {NoContent, "", "e1"}
Fallback == "I couldn't generate an explanation."

\* The upstream content taken as it is, with no fallback
ExplanationNoFallback(content) == content

\* lines 80-82
Explanation(content) ==
    IF content = NoContent \/ content = "" THEN Fallback ELSE content

EmptyCache == [k \in {} |-> ""]

\* Insert-if-absent in place of insert-or-overwrite
CacheSetIfAbsent(c, k, e) ==
    [x \in DOMAIN c \cup {k} |-> IF x \in DOMAIN c THEN c[x] ELSE e]

\* line 85: cache.set(key, explanation)
CacheSet(c, k, e) == [x \in DOMAIN c \cup {k} |-> IF x = k THEN e ELSE c[x]]

\* line 86: the overflow check fires
Overflows(c) == Cardinality(DOMAIN c) > CacheLimit

\* The store step without its overflow check
StoreNoClear(c, k, e) == CacheSet(c, k, e)

\* The store step with the overflow check made before the insert
StoreClearFirst(c, k, e) ==
    IF Overflows(CacheSet(c, k, e)) THEN CacheSet(EmptyCache, k, e)
    ELSE CacheSet(c, k, e)

\* The store step evicting one entry, not all, on overflow
StoreEvictOne(c, k, e) ==
    LET c1 == CacheSet(c, k, e) IN
    IF Overflows(c1)
    THEN LET victim == CHOOSE x \in DOMAIN c1 : x # k IN
         [x \in DOMAIN c1 \ {victim} |-> c1[x]]
    ELSE c1

\* lines 85-86: the store step
Store(c, k, e) ==
    LET c1 == CacheSet(c, k, e) IN
    IF Overflows(c1) THEN EmptyCache ELSE c1

(***************************************************************************)
(* Requests                                                                *)
(***************************************************************************)
\* A request body with its properties in the order sql, challengeId, title,
\* description, gradeStatus; absent properties are left out
Obj(sql, challengeId, title, description, gradeStatus) ==
    SelectSeq(<< <<"sql", sql>>, <<"challengeId", challengeId>>, <<"title", title>>,
                 <<"description", description>>, <<"gradeStatus", gradeStatus>> >>,
              LAMBDA p : p[2].t # "undefined")

SqlA == Str(<<"a">>)

\* The request bodies sent to the server
Bodies ==
    { Obj(s, Undef, Undef, Undef, Undef) : s \in {Undef, Str(<<>>), Num(42), SqlA} }
    \cup { Obj(SqlA, Undef, Undef, d, Undef) : d \in {Str(<<"d">>), Num(7)} }
    \cup { Obj(SqlA, Str(<<"c", "1">>), Undef, Undef, Undef),
           Obj(SqlA, Undef, Str(<<"t">>), Undef, Undef),
           Obj(SqlA, Undef, Undef, Undef, Str(<<"p">>)) }

\* The details an upstream failure can carry
ErrDetails == {"ETIMEDOUT", "401 invalid api key"}

NoReq == Destructure(<<>>)
NoKey == <<>>

MissingSqlMsg == "Missing 'sql' in request body."
FailedMsg == "Failed to explain SQL."
HealthMsg == "SQL Dojo explain backend is running."

\* A handler step that did nothing yet; the actions fill in what they do:
\*   op       "none" | "health" | "arrive" | "resume"
\*   req, key the request's locals and derived key (NoKey: none derived)
\*   looked   the cache was read (line 41);  upstream: line 70 was called
\*   stored   cache.set ran (line 85);  cleared: cache.clear ran (line 86)
\*   content  what the upstream call resolved to;  logged: console.error's argument
\*   status   HTTP status of the response sent in this step, 0 when none was sent
\*   kind     "explanation" | "error" | "health";  text, cached: the body's fields
\*   path     the states of the request handler the request has gone through
NoStep ==
    [op |-> "none", req |-> NoReq, key |-> NoKey, looked |-> FALSE,
     upstream |-> FALSE, stored |-> FALSE, cleared |-> FALSE,
     content |-> NoContent, logged |-> "", status |-> 0, kind |-> "none",
     text |-> "", cached |-> FALSE, path |-> <<>>]

MissPath == <<"Validating", "KeyDerived", "CacheLookup", "CacheMiss">>

(***************************************************************************)
(* The process                                                             *)
(***************************************************************************)
Init ==
    /\ apiKey \in BOOLEAN
    /\ proc = "starting"
    /\ cache = EmptyCache
    /\ pc = [i \in Slots |-> "idle"]
    /\ req = [i \in Slots |-> NoReq]
    /\ key = [i \in Slots |-> NoKey]
    /\ last = NoStep
    /\ written = EmptyCache
    /\ r1 = <<>> /\ r2 = <<>> /\ k1 = NoKey /\ k2 = NoKey /\ kpc = "off"

keyVars == <<r1, r2, k1, k2, kpc>>

\* Startup without the credential check
StartupNoCheck ==
    /\ proc = "starting"
    /\ proc' = "serving"
    /\ UNCHANGED <<apiKey, cache, written, pc, req, key, last, keyVars>>

\* lines 5-9 and 97: exit(1) without the credential, otherwise listen
Startup ==
    /\ proc = "starting"
    /\ proc' = IF apiKey THEN "serving" ELSE "exited"
    /\ UNCHANGED <<apiKey, cache, written, pc, req, key, last, keyVars>>

\* lines 27-29: GET /
Health ==
    /\ proc = "serving"
    /\ last' = [NoStep EXCEPT !.op = "health", !.status = 200, !.kind = "health",
                              !.text = HealthMsg]
    /\ UNCHANGED <<apiKey, proc, cache, written, pc, req, key, keyVars>>

\* lines 35-37: the validation error response
Reject(b) ==
    [NoStep EXCEPT !.op = "arrive", !.req = b, !.status = 400, !.kind = "error",
                   !.text = MissingSqlMsg, !.path = <<"Validating">>]

\* The response from the cache without its cached marker
HitNoMarker(b, k) ==
    [NoStep EXCEPT !.op = "arrive", !.req = b, !.key = k, !.looked = TRUE,
                   !.status = 200, !.kind = "explanation", !.text = cache[k],
                   !.path = <<"Validating", "KeyDerived", "CacheLookup",
                              "CacheHit", "Responding">>]

\* lines 41-43: the response from the cache
Hit(b, k) ==
    [NoStep EXCEPT !.op = "arrive", !.req = b, !.key = k, !.looked = TRUE,
                   !.status = 200, !.kind = "explanation", !.text = cache[k],
                   !.cached = TRUE,
                   !.path = <<"Validating", "KeyDerived", "CacheLookup",
                              "CacheHit", "Responding">>]

\* lines 55-68 throwing, caught at lines 89-92
PromptError(b, k) ==
    [NoStep EXCEPT !.op = "arrive", !.req = b, !.key = k, !.looked = TRUE,
                   !.logged = "TypeError", !.status = 500, !.kind = "error",
                   !.text = FailedMsg, !.path = MissPath \o <<"ErrorResponse">>]

\* lines 31-70: POST /api/explain-sql from the request's arrival to its response
\* or to its suspension at the await of line 70.  i is the lowest idle slot.
Arrive(i, body) ==
    /\ proc = "serving"
    /\ pc[i] = "idle"
    /\ \A j \in Slots : j < i => pc[j] # "idle"
    /\ LET b == Destructure(body)
           k == KeyOf(b)
       IN  IF ~ValidSql(b.sql)
           THEN /\ last' = Reject(b)
                /\ UNCHANGED <<pc, req, key>>
           ELSE IF Has(cache, k)
           THEN /\ last' = Hit(b, k)
                /\ UNCHANGED <<pc, req, key>>
           ELSE IF PromptThrows(b)
           THEN /\ last' = PromptError(b, k)
                /\ UNCHANGED <<pc, req, key>>
           ELSE /\ pc' = [pc EXCEPT ![i] = "awaiting"]
                /\ req' = [req EXCEPT ![i] = b]
                /\ key' = [key EXCEPT ![i] = k]
                /\ last' = [NoStep EXCEPT !.op = "arrive", !.req = b, !.key = k,
                                          !.looked = TRUE, !.upstream = TRUE,
                                          !.path = MissPath \o <<"UpstreamCall">>]
    /\ UNCHANGED <<apiKey, proc, cache, written, keyVars>>

\* The request's result, noted under the key derived from its own locals
Note(w, b, e, cleared) ==
    IF cleared THEN EmptyCache
    ELSE [x \in DOMAIN w \cup {KeyOf(b)} |-> IF x = KeyOf(b) THEN e ELSE w[x]]

\* The key kept in one variable shared by all requests: the store step uses
\* the key of the request that arrived last
UpstreamOkSharedKey(i, content) ==
    /\ proc = "serving"
    /\ pc[i] = "awaiting"
    /\ LET e == Explanation(content)
           k == IF last.op = "arrive" /\ last.key # NoKey THEN last.key ELSE key[i]
       IN
       /\ cache' = Store(cache, k, e)
       /\ written' = Note(written, req[i], e, Overflows(CacheSet(cache, k, e)))
       /\ last' = [NoStep EXCEPT !.op = "resume", !.req = req[i], !.key = key[i],
                                 !.content = content, !.stored = TRUE,
                                 !.cleared = Overflows(CacheSet(cache, k, e)),
                                 !.status = 200, !.kind = "explanation", !.text = e,
                                 !.path = MissPath \o <<"UpstreamCall",
                                     "UpstreamSuccess", "StoreAndRespond">>]
    /\ pc' = [pc EXCEPT ![i] = "idle"]
    /\ req' = [req EXCEPT ![i] = NoReq]
    /\ key' = [key EXCEPT ![i] = NoKey]
    /\ UNCHANGED <<apiKey, proc, keyVars>>

\* lines 80-88: the upstream call of slot i resolved with content
UpstreamOk(i, content) ==
    /\ proc = "serving"
    /\ pc[i] = "awaiting"
    /\ LET e == Explanation(content) IN
       /\ cache' = Store(cache, key[i], e)
       /\ written' = Note(written, req[i], e, Overflows(CacheSet(cache, key[i], e)))
       /\ last' = [NoStep EXCEPT !.op = "resume", !.req = req[i], !.key = key[i],
                                 !.content = content, !.stored = TRUE,
                                 !.cleared = Overflows(CacheSet(cache, key[i], e)),
                                 !.status = 200, !.kind = "explanation", !.text = e,
                                 !.path = MissPath \o <<"UpstreamCall",
                                     "UpstreamSuccess", "StoreAndRespond">>]
    /\ pc' = [pc EXCEPT ![i] = "idle"]
    /\ req' = [req EXCEPT ![i] = NoReq]
    /\ key' = [key EXCEPT ![i] = NoKey]
    /\ UNCHANGED <<apiKey, proc, keyVars>>

\* An upstream failure answered by calling the upstream again
UpstreamFailRetry(i, err) ==
    /\ proc = "serving"
    /\ pc[i] = "awaiting"
    /\ last' = [NoStep EXCEPT !.op = "resume", !.req = req[i], !.key = key[i],
                              !.logged = err, !.upstream = TRUE,
                              !.path = MissPath \o <<"UpstreamCall",
                                  "UpstreamFailure", "UpstreamCall">>]
    /\ UNCHANGED <<apiKey, proc, cache, written, pc, req, key, keyVars>>

\* An upstream failure answered with the error's own detail
UpstreamFailLeaksDetail(i, err) ==
    /\ proc = "serving"
    /\ pc[i] = "awaiting"
    /\ last' = [NoStep EXCEPT !.op = "resume", !.req = req[i], !.key = key[i],
                              !.logged = err, !.status = 500, !.kind = "error",
                              !.text = err,
                              !.path = MissPath \o <<"UpstreamCall",
                                  "UpstreamFailure", "ErrorResponse">>]
    /\ pc' = [pc EXCEPT ![i] = "idle"]
    /\ req' = [req EXCEPT ![i] = NoReq]
    /\ key' = [key EXCEPT ![i] = NoKey]
    /\ UNCHANGED <<apiKey, proc, cache, written, keyVars>>

\* An upstream failure answered 500 after caching the fallback text
UpstreamFailCachesFallback(i, err) ==
    /\ proc = "serving"
    /\ pc[i] = "awaiting"
    /\ cache' = Store(cache, key[i], Fallback)
    /\ last' = [NoStep EXCEPT !.op = "resume", !.req = req[i], !.key = key[i],
                              !.logged = err, !.status = 500, !.kind = "error",
                              !.text = FailedMsg,
                              !.path = MissPath \o <<"UpstreamCall",
                                  "UpstreamFailure", "ErrorResponse">>]
    /\ pc' = [pc EXCEPT ![i] = "idle"]
    /\ req' = [req EXCEPT ![i] = NoReq]
    /\ key' = [key EXCEPT ![i] = NoKey]
    /\ UNCHANGED <<apiKey, proc, written, keyVars>>

\* lines 89-92: the upstream call of slot i rejected with err
UpstreamFail(i, err) ==
    /\ proc = "serving"
    /\ pc[i] = "awaiting"
    /\ last' = [NoStep EXCEPT !.op = "resume", !.req = req[i], !.key = key[i],
                              !.logged = err, !.status = 500, !.kind = "error",
                              !.text = FailedMsg,
                              !.path = MissPath \o <<"UpstreamCall",
                                  "UpstreamFailure", "ErrorResponse">>]
    /\ pc' = [pc EXCEPT ![i] = "idle"]
    /\ req' = [req EXCEPT ![i] = NoReq]
    /\ key' = [key EXCEPT ![i] = NoKey]
    /\ UNCHANGED <<apiKey, proc, cache, written, keyVars>>

Next ==
    \/ Startup
    \/ Health
    \/ \E i \in Slots, body \in Bodies : Arrive(i, body)
    \/ \E i \in Slots, content \in Contents : UpstreamOk(i, content)
    \/ \E i \in Slots, err \in ErrDetails : UpstreamFail(i, err)

Spec == Init /\ [][Next]_vars

\* The upstream call of slot i returns or fails
Resolve(i) ==
    \/ \E content \in Contents : UpstreamOk(i, content)
    \/ \E err \in ErrDetails : UpstreamFail(i, err)

\* The server under the assumption that every upstream call eventually returns
\* or fails; the continuation of the await (lines 80-92) then runs
SpecFair == Spec /\ \A i \in Slots : WF_vars(Resolve(i))

(***************************************************************************)
(* Properties of the request handler and its cache (checked under Spec)    *)
(***************************************************************************)
KeyFields == {"sql", "challengeId", "title", "gradeStatus"}

\* Two requests' locals agree on the four fields the key is made of
SameKeyLocals(x, y) == \A f \in KeyFields : x[f] = y[f]

\* The step just taken was the store-and-respond step of a request
StoreStep(step) == step.op = "resume" /\ step.stored /\ step.status = 200

\* C1 as stated: after a request was answered through the upstream call with
\* text v, a request with the same sql, challengeId, title and gradeStatus
\* handled next is answered with v and the cached marker, with no upstream call.
C1_RepeatServedFromCache ==
    [][ (StoreStep(last) /\ last'.op = "arrive"
            /\ SameKeyLocals(last.req, last'.req))
        => (last'.status = 200 /\ last'.kind = "explanation" /\ last'.cached
            /\ last'.text = last.text /\ ~last'.upstream) ]_vars

\* C1 amended: the same, provided the store step's overflow check did not clear
\* the cache; and then a lookup of the key right after the store returns v.
C1_RepeatServedFromCacheUnlessCleared ==
    [][ /\ (StoreStep(last) /\ ~last.cleared)
            => (last.key \in DOMAIN cache /\ cache[last.key] = last.text)
        /\ (StoreStep(last) /\ ~last.cleared /\ last'.op = "arrive"
                /\ SameKeyLocals(last.req, last'.req))
            => (last'.status = 200 /\ last'.kind = "explanation" /\ last'.cached
                /\ last'.text = last.text /\ ~last'.upstream) ]_vars

\* A request with a description of its own was answered from the cache with the
\* text the store step wrote
C1_Witness ==
    /\ last.op = "arrive" /\ last.cached /\ last.status = 200
    /\ last.text = "e1" /\ last.req.description = Str(<<"d">>)
    /\ cache[last.key] = "e1"

\* C2: between handler steps the cache holds at most CacheLimit entries, and a
\* store step that brought the count above CacheLimit left the cache empty.
C2_CacheBounded ==
    /\ Cardinality(DOMAIN cache) <= CacheLimit
    /\ (last.stored /\ last.cleared) => cache = EmptyCache

\* The overflow clear happened while another request awaited the upstream
C2_Witness ==
    /\ last.stored /\ last.cleared /\ cache = EmptyCache
    /\ \E i \in Slots : pc[i] = "awaiting"

\* A store step of a key that is new to a cache holding CacheLimit entries:
\* the (CacheLimit + 1)-th distinct key since the cache was last empty
OverflowingStore ==
    /\ last'.op = "resume" /\ last'.stored
    /\ Cardinality(DOMAIN cache) = CacheLimit
    /\ last'.key \notin DOMAIN cache

\* C3 as stated: after the store of the (CacheLimit + 1)-th distinct key the
\* cache holds exactly one entry, the newest.
C3_OnlyNewestRemains ==
    [][ OverflowingStore => DOMAIN cache' = {last'.key} ]_vars

\* C3 amended: after the store of the (CacheLimit + 1)-th distinct key the
\* cache is empty: the newest entry is cleared with the others.
C3_AllEntriesCleared ==
    [][ OverflowingStore => cache' = EmptyCache ]_vars

\* The overflowing store step has just run, with no request in flight
C3_Witness ==
    /\ last.op = "resume" /\ last.stored /\ last.cleared
    /\ cache = EmptyCache
    /\ \A i \in Slots : pc[i] = "idle"

\* C4: the request whose cache lookup runs next after an overflow clear is not
\* answered from the cache and goes to the upstream call, whatever its key.
C4_NextLookupMissesAndGoesUpstream ==
    [][ (last.stored /\ last.cleared /\ last'.op = "arrive" /\ last'.looked)
        => (~last'.cached /\ last'.upstream) ]_vars

\* C5: there is no in-flight deduplication.  A request arriving while the same
\* request is awaiting the upstream, nothing being cached for its key, calls
\* the upstream too; and every request whose upstream call succeeds performs
\* its own store, so that the cache then holds its text under its key
\* (overwriting an earlier one) unless the store overflowed.
C5_NoDeduplication ==
    [][ /\ (last'.op = "arrive"
            /\ \E j \in Slots : /\ pc[j] = "awaiting" /\ req[j] = last'.req
                                /\ key[j] \notin DOMAIN cache)
           => (last'.upstream
               /\ \E i \in Slots : /\ pc[i] = "idle" /\ pc'[i] = "awaiting"
                                   /\ key'[i] = last'.key)
        /\ (last'.op = "resume" /\ last'.status = 200)
           => (last'.stored
               /\ (~last'.cleared => (/\ last'.key \in DOMAIN cache'
                                      /\ cache'[last'.key] = last'.text))) ]_vars

\* Two requests with one key are awaiting the upstream at the same time
C5_Witness ==
    /\ \A i \in Slots : i <= 2 => pc[i] = "awaiting"
    /\ key[1] = key[2] /\ key[1] # NoKey
    /\ key[1] \notin DOMAIN cache

\* The sql field is absent, is not a string, or is the empty string
BadSql(v) == v.t # "string" \/ v.s = <<>>

\* C6: a request whose sql is absent, not a string or empty is answered 400
\* with an error body; for it no key is derived, the cache is neither read nor
\* changed, and the upstream is not called.  Only a request with a non-empty
\* string sql gets a key.
C6_InvalidSqlRejected ==
    [][ /\ (last'.op = "arrive" /\ BadSql(last'.req.sql))
           => (/\ last'.status = 400 /\ last'.kind = "error"
               /\ last'.key = NoKey /\ ~last'.looked /\ ~last'.upstream
               /\ ~last'.stored /\ cache' = cache /\ pc' = pc)
        /\ (last'.key # NoKey \/ last'.looked) => ~BadSql(last'.req.sql) ]_vars

\* A request with an empty sql was rejected while the cache held entries
C6_Witness ==
    /\ last.op = "arrive" /\ last.status = 400
    /\ last.req.sql = Str(<<>>)
    /\ cache # EmptyCache

\* C7: handling an upstream failure answers that request 500 with an error
\* body and ends it, makes no further upstream call, and leaves the cache as
\* it was; no step that resumes a request calls the upstream.
C7_UpstreamFailureIsTerminal ==
    [][ /\ (last'.op = "resume" /\ last'.logged \in ErrDetails)
           => (/\ last'.status = 500 /\ last'.kind = "error"
               /\ ~last'.upstream /\ ~last'.stored
               /\ cache' = cache
               /\ \E i \in Slots : /\ pc[i] = "awaiting" /\ req[i] = last'.req
                                   /\ pc'[i] = "idle")
        /\ last'.op = "resume" => ~last'.upstream ]_vars

\* An upstream failure was answered while the cache held entries
C7_Witness ==
    /\ last.op = "resume" /\ last.status = 500 /\ last.logged \in ErrDetails
    /\ cache # EmptyCache

\* C8: every request goes through the states of the handler's state machine in
\* one of the four orders it allows (or is still at the upstream call), and is
\* answered accordingly: validation error, cached success, fresh success, or
\* the generic error after an upstream failure.
C8_RequestStateMachine ==
    last.op \in {"arrive", "resume"} =>
        \/ /\ last.path = <<"Validating">>
           /\ last.status = 400 /\ last.kind = "error"
        \/ /\ last.path = <<"Validating", "KeyDerived", "CacheLookup", "CacheHit",
                            "Responding">>
           /\ last.status = 200 /\ last.kind = "explanation" /\ last.cached
        \/ /\ last.path = <<"Validating", "KeyDerived", "CacheLookup", "CacheMiss",
                            "UpstreamCall">>
           /\ last.status = 0 /\ last.upstream
        \/ /\ last.path = <<"Validating", "KeyDerived", "CacheLookup", "CacheMiss",
                            "UpstreamCall", "UpstreamSuccess", "StoreAndRespond">>
           /\ last.status = 200 /\ last.kind = "explanation" /\ ~last.cached
        \/ /\ last.path = <<"Validating", "KeyDerived", "CacheLookup", "CacheMiss",
                            "UpstreamCall", "UpstreamFailure", "ErrorResponse">>
           /\ last.status = 500 /\ last.kind = "error"

\* C11: whatever the detail of the upstream failure (it goes to the log only),
\* the response is the same: 500 with the fixed generic error message.
C11_FailureResponseIsGeneric ==
    (last.op = "resume" /\ last.logged # "")
        => (/\ last.status = 500 /\ last.kind = "error"
            /\ last.text = FailedMsg /\ last.text # last.logged
            /\ ~last.cached)

\* An upstream failure with the detail of a rejected credential was answered
C11_Witness ==
    /\ last.op = "resume" /\ last.logged = "401 invalid api key"
    /\ last.status = 500 /\ last.text = FailedMsg

\* C12: without the credential the process never serves: no request is
\* validated, no cache lookup is made and nothing is sent upstream.
C12_NoCredentialNoService ==
    ~apiKey => (/\ proc # "serving"
                /\ last = NoStep
                /\ cache = EmptyCache
                /\ \A i \in Slots : pc[i] = "idle")

\* The process has exited for want of the credential
C12_Witness == ~apiKey /\ proc = "exited"

\* C13: a step either keeps every key of the cache or leaves the cache empty;
\* the cache loses keys only in a store step whose overflow check fired.
C13_OnlyFullClearShrinks ==
    [][ /\ (DOMAIN cache \subseteq DOMAIN cache') \/ cache' = EmptyCache
        /\ ~(DOMAIN cache \subseteq DOMAIN cache')
           => (last'.op = "resume" /\ last'.stored /\ last'.cleared) ]_vars

\* A store step of an upstream text has just emptied the cache
C13_Witness ==
    /\ last.op = "resume" /\ last.stored /\ last.cleared
    /\ last.text = "e1"
    /\ cache = EmptyCache

\* C14: the cache starts empty and changes only in the store step of a request
\* whose upstream call succeeded: the liveness endpoint, a validation failure,
\* a cache hit, an arrival that suspends at the upstream call and an upstream
\* failure leave it as it was.
C14_OnlyStoreStepWrites ==
    /\ cache = EmptyCache
    /\ [][ /\ cache' # cache
              => (last'.op = "resume" /\ last'.stored /\ last'.status = 200
                  /\ last'.logged = "")
           /\ (last'.op \in {"health", "arrive"} \/ last'.logged # "")
              => cache' = cache ]_vars

\* The liveness endpoint answered while the cache held an entry and a request
\* awaited the upstream
C14_Witness ==
    /\ last.op = "health" /\ last.status = 200
    /\ cache # EmptyCache
    /\ \E i \in Slots : pc[i] = "awaiting"

\* The request went through the upstream call
WentUpstream(step) == \E n \in 1..Len(step.path) : step.path[n] = "UpstreamCall"

\* C15: a success response has the cached marker exactly when it was answered
\* from the cache with no upstream call in its request; a response sent after
\* an upstream call has no marker, the one whose store overflowed included.
C15_CachedMarkerIffFromCache ==
    [][ (last'.status = 200 /\ last'.kind = "explanation")
        => (/\ last'.cached <=> (/\ last'.op = "arrive" /\ last'.looked
                                 /\ ~last'.upstream /\ ~WentUpstream(last')
                                 /\ last'.key \in DOMAIN cache
                                 /\ last'.text = cache[last'.key])
            /\ (last'.stored \/ WentUpstream(last')) => ~last'.cached) ]_vars

\* The response of the request whose store step overflowed, with no marker
C15_Witness ==
    /\ last.status = 200 /\ last.kind = "explanation"
    /\ last.stored /\ last.cleared /\ ~last.cached
    /\ last.text = Fallback

\* C16: the cache holds, for each key, exactly the explanation that the latest
\* request with that derived key obtained from its own upstream call since the
\* cache was last cleared (no request stores under another request's key),
\* and a cache hit returns that text.
C16_EntriesBelongToTheirKey ==
    /\ cache = written
    /\ (last.op = "arrive" /\ last.cached)
       => (/\ KeyOf(last.req) \in DOMAIN written
           /\ last.text = written[KeyOf(last.req)])

\* A request stored its text while a request with another key was in flight,
\* and the cache holds entries for two keys
C16_Witness ==
    /\ last.op = "resume" /\ last.stored /\ ~last.cleared
    /\ \E i \in Slots : pc[i] = "awaiting" /\ key[i] # last.key
    /\ Cardinality(DOMAIN cache) = 2
    /\ cache[last.key] = last.text

\* C17: a request that missed the cache gets no response and stays suspended at
\* the upstream call until that call returns or fails (nothing else ends the
\* wait); and if every upstream call eventually returns or fails, every
\* suspended request is eventually answered.
C17_MissWaitsForUpstream ==
    /\ [][ /\ (last'.op = "arrive" /\ last'.looked /\ ~last'.cached)
              => (/\ last'.status = 0
                  /\ \E i \in Slots : /\ pc[i] = "idle" /\ pc'[i] = "awaiting"
                                      /\ req'[i] = last'.req)
           /\ \A i \in Slots :
                (pc[i] = "awaiting" /\ pc'[i] # "awaiting")
                => (/\ last'.op = "resume" /\ last'.req = req[i]
                    /\ last'.status \in {200, 500}
                    /\ (last'.logged # "" \/ last'.stored)) ]_vars
    /\ \A i \in Slots : (pc[i] = "awaiting") ~> (pc[i] = "idle")

\* The upstream call resolved without explanation content
NoText(step) == step.content = NoContent \/ step.content = ""

\* C18: when the upstream call succeeds with missing or empty content, the
\* request is answered with the fallback text, which is stored under the
\* request's key as any other result is; while that entry stands a request
\* with the same key fields is served the fallback as a cached hit with no
\* upstream call; and no value in the cache is ever empty.
C18_FallbackIsCached ==
    [][ /\ (last'.op = "resume" /\ last'.status = 200 /\ NoText(last'))
           => (/\ last'.text = Fallback /\ last'.stored
               /\ ~last'.cleared => (/\ last'.key \in DOMAIN cache'
                                     /\ cache'[last'.key] = Fallback))
        /\ (StoreStep(last) /\ NoText(last) /\ ~last.cleared
                /\ last'.op = "arrive" /\ SameKeyLocals(last.req, last'.req))
           => (/\ last'.status = 200 /\ last'.cached /\ last'.text = Fallback
               /\ ~last'.upstream)
        /\ \A k \in DOMAIN cache' : cache'[k] \notin {"", NoContent} ]_vars

\* A request was served the fallback text from the cache
C18_Witness ==
    /\ last.op = "arrive" /\ last.cached /\ last.status = 200
    /\ last.text = Fallback
    /\ ~last.upstream

(***************************************************************************)
(* Key derivation alone: the handler's lines 33-40 applied to two request  *)
(* bodies drawn from KeyBodies                                             *)
(***************************************************************************)
PropOrders ==
    { <<"sql", "challengeId", "title", "description", "gradeStatus">>,
      <<"gradeStatus", "description", "title", "challengeId", "sql">> }

\* The object whose properties are those of b that are present, in this order
ObjIn(order, b) ==
    SelectSeq([i \in 1..Len(order) |-> <<order[i], b[order[i]]>>],
              LAMBDA p : p[2].t # "undefined")

\* The sql text  a","title":"b  which holds quotes, a comma and a colon
SqlCrafted ==
    Str(<<"a", "\"", ",", "\"", "t", "i", "t", "l", "e", "\"", ":", "\"", "b">>)

KeyBodies ==
    { ObjIn(o, [sql |-> s, challengeId |-> c, title |-> t, description |-> d,
                gradeStatus |-> g]) :
        o \in PropOrders,
        s \in {SqlA, SqlCrafted, Str(<<>>)},
        c \in {Undef, Null, Str(<<"4", "2">>), Num(42), Infinity},
        t \in {Undef, Str(<<"b">>)},
        d \in {Undef, Str(<<"d">>)},
        g \in {Undef, Str(<<"p">>)} }

\* lines 33-40: the key the handler derives for a body, NoKey when it rejects it
DeriveKey(body) ==
    LET b == Destructure(body) IN
    IF ValidSql(b.sql) THEN KeyOf(b) ELSE NoKey

InitKey ==
    /\ apiKey = TRUE
    /\ proc = "serving"
    /\ cache = EmptyCache
    /\ pc = [i \in Slots |-> "idle"]
    /\ req = [i \in Slots |-> NoReq]
    /\ key = [i \in Slots |-> NoKey]
    /\ last = NoStep
    /\ written = EmptyCache
    /\ r1 \in KeyBodies /\ r2 \in KeyBodies
    /\ k1 = NoKey /\ k2 = NoKey /\ kpc = "input"

DeriveKeys ==
    /\ kpc = "input"
    /\ k1' = DeriveKey(r1)
    /\ k2' = DeriveKey(r2)
    /\ kpc' = "derived"
    /\ UNCHANGED <<apiKey, proc, cache, written, pc, req, key, last, r1, r2>>

NextKey == DeriveKeys

SpecKey == InitKey /\ [][NextKey]_vars

\* The two bodies carry the same value, or both none, for each key field
SameKeyFields(x, y) == \A f \in KeyFields : Get(x, f) = Get(y, f)

\* The body passes validation: its sql is a non-empty string
HasSql(body) == Get(body, "sql").t = "string" /\ Get(body, "sql").s # <<>>

\* C9: two requests with the same sql, challengeId, title and gradeStatus (each
\* the same value or both absent) get the same cache key, whatever their
\* descriptions and whatever the order of the properties in their bodies.
C9_SameFieldsSameKey ==
    (kpc = "derived" /\ SameKeyFields(r1, r2)) => k1 = k2

\* Two bodies that differ in description and in property order, same key fields
C9_Witness ==
    /\ kpc = "derived"
    /\ SameKeyFields(r1, r2)
    /\ HasSql(r1)
    /\ Get(r1, "description") # Get(r2, "description")
    /\ Len(r1) > 1 /\ Len(r2) > 1 /\ r1[1][1] # r2[1][1]
    /\ k1 = k2 /\ k1 # NoKey

\* C10: two accepted requests that differ in sql, challengeId, title or
\* gradeStatus (a value against another value, or a value against none) get
\* different cache keys.
C10_DifferentFieldsDifferentKey ==
    (kpc = "derived" /\ HasSql(r1) /\ HasSql(r2) /\ ~SameKeyFields(r1, r2))
        => k1 # k2

====
